---- MODULE Spec2Model ----
(***************************************************************************)
(* The offline submission queue of the PWA registration form.              *)
(*                                                                         *)
(* Two FormLayout components are modelled over the same variables:         *)
(*   Spec     the localStorage-backed one, src/src/components/form-layout.tsx *)
(*   SpecGeo  the geolocation one, the second file in src/src/app/page.tsx *)
(*                                                                         *)
(* React specifics that the model keeps:                                   *)
(*  - a handler reads the state of the render it was created in.  Click    *)
(*    and submit handlers belong to the latest render, so they read the    *)
(*    current variables.  An async function keeps the values it captured   *)
(*    when it was invoked across its awaits: a sync run carries `snap`.    *)
(*    A listener registered by an effect keeps the values of the render    *)
(*    whose effect registered it: `listeners` carries them.                *)
(*  - the code between two awaits runs to completion: one action each.     *)
(*  - text is a sequence of one-character strings, "" is << >>.            *)
(*  - a timer fires only after the clock has advanced past the instant it  *)
(*    was set (all delays in the code are >= 1000 ms).                     *)
(*  - the toast list is written by every handler and read by none of them. *)
(*    Spec and SpecGeo keep the addToast calls of each step in `posted`;   *)
(*    the list itself and its 5 s timers are SpecToast.                    *)
(*  - Spec and SpecGeo are the queue: the typing that precedes a submit is *)
(*    the input of the submit step.  Typing field by field, validation     *)
(*    failures and the online submit are SpecForm.                         *)
(***************************************************************************)
EXTENDS Integers, Sequences, FiniteSets, TLC

\* ---------------------------------------------------------------- bounds
MaxClock  == 3      \* Date.now() takes the values 0..MaxClock
MaxQueue  == 2      \* submissions in the queue
MaxRuns   == 2      \* syncOfflineSubmissions invocations in flight
MaxToasts == 2      \* toasts on screen (SpecToast)
MaxEmailLen == 6    \* characters of the email field (SpecValidate)
MaxEvents == 2      \* online/offline events fired and not yet handled (SpecOnline)

VARIABLES
  now,                 \* the value Date.now() returns
  navOnLine,           \* navigator.onLine
  isOnline,            \* useState isOnline
  offlineSubmissions,  \* useState offlineSubmissions (the queue)
  storage,             \* localStorage item 'offlineSubmissions'
  listeners,           \* closures registered for the online/offline events
  runs,                \* syncOfflineSubmissions invocations in flight
  toasts,              \* useState toasts (kept by SpecToast only)
  events,              \* online/offline events fired, not yet handled (SpecOnline only)
  posted,              \* the addToast calls of the last step, in order
  formData,            \* useState formData
  isSubmitting,        \* useState isSubmitting
  submitting,          \* online handleSubmit calls awaiting the remote call
  dirty,               \* history: the last localStorage write threw
  tracking,            \* useState tracking            (page.tsx only)
  watchId,             \* useState watchId, 0 is null  (page.tsx only)
  watches,             \* watches registered with navigator.geolocation
  locationLoading,     \* useState locationLoading    (page.tsx only)
  location,            \* the location attributes of formData (page.tsx only)
  querying,            \* a getCurrentPosition call has not called back yet
  swState,             \* lifecycle state of the service worker   (sw.js only)
  caches,              \* Cache Storage: cache name -> cached URLs (sw.js only)
  answer,              \* what the last fetch event was answered   (sw.js only)
  idb,                 \* IndexedDB store 'offlineSubmissions'     (sw.js only)
  swLog                \* the last syncOfflineData call: what it attempted and logged

\* the service worker and its stores (SpecSW only)
swVars == <<swState, caches, answer, idb, swLog>>

\* the one-shot location query and what it writes (SpecLoc only)
locVars == <<locationLoading, location, querying>>

\* the state only the geolocation component has
geoVars == <<tracking, watchId, watches, locVars>>

\* the toast list, which the queue never reads, and the events in flight,
\* which Spec, SpecGeo and SpecForm deliver in the step that fires them
sinkVars == <<toasts, events, swVars>>

vars == <<now, navOnLine, isOnline, offlineSubmissions, storage, listeners,
          runs, posted, formData, isSubmitting, submitting, dirty, geoVars,
          sinkVars>>

\* ---------------------------------------------------- service worker values
CACHE_NAME == "my-pwa-cache-v3"
STATIC_CACHE == "static-cache-v2"
DYNAMIC_CACHE == "dynamic-cache-v2"
OFFLINE_CACHE == "offline-cache-v1"

CacheNames == {CACHE_NAME, STATIC_CACHE, DYNAMIC_CACHE, OFFLINE_CACHE}

\* a path on the worker's own origin
Own(path) == [scheme |-> "https", path |-> path]

urlsToCache == {Own("/"), Own("/manifest.json"), Own("/offline.html"), Own("/icon.svg")}

NoCaches == [n \in CacheNames |-> {}]

NoUrl == [scheme |-> "none", path |-> "none"]

\* no fetch event answered yet
NoAnswer == [kind |-> "none", url |-> NoUrl, fetched |-> FALSE]

NoLog == [attempted |-> << >>, error |-> "none"]

\* ------------------------------------------------------------ form values
EmptyText == << >>

\* formData without latitude, longitude, altitude, accuracy, speed, heading
\* and timestamp
NoFix == "none"

\* the positions the browser reports; one position fills all seven attributes
Fixes == {"fixA", "fixB"}

\* GeolocationPositionError codes
ErrorCodes == {"PERMISSION_DENIED", "POSITION_UNAVAILABLE", "TIMEOUT"}

EmptyForm ==
  [firstName |-> EmptyText, lastName |-> EmptyText, email |-> EmptyText,
   address |-> EmptyText, city |-> EmptyText, state |-> EmptyText,
   postalCode |-> EmptyText]

\* what the user types into a field (handleInputChange's e.target.value)
InputValues(name) ==
  CASE name = "firstName" -> {EmptyText, <<"A">>}
    [] name = "lastName"  -> {EmptyText, <<"B">>}
    [] name = "email"     -> {EmptyText, <<"a", "@", "b", ".", "c">>,
                              <<"d", "@", "e", ".", "f">>}
    [] OTHER              -> {EmptyText}

\* the fields the user edits here; the other four stay empty
FieldNames == {"firstName", "lastName", "email"}

\* the forms typing can produce
TypedForms ==
  {[EmptyForm EXCEPT !.firstName = f, !.lastName = l, !.email = e] :
     f \in InputValues("firstName"), l \in InputValues("lastName"),
     e \in InputValues("email")}

IsSpace(c) == c \in {" ", "\t", "\n"}

RECURSIVE TrimStart(_)
TrimStart(s) ==
  IF s # << >> /\ IsSpace(Head(s)) THEN TrimStart(Tail(s)) ELSE s

RECURSIVE TrimEnd(_)
TrimEnd(s) ==
  IF s # << >> /\ IsSpace(s[Len(s)]) THEN TrimEnd(SubSeq(s, 1, Len(s) - 1))
  ELSE s

Trim(s) == TrimEnd(TrimStart(s))

\* /^[^\s@]+@[^\s@]+\.[^\s@]+$/
Plain(s, a, b) == \A k \in a..b : ~IsSpace(s[k]) /\ s[k] # "@"

EmailPattern(s) ==
  \E i \in 1..Len(s) : \E j \in 1..Len(s) :
     /\ s[i] = "@" /\ s[j] = "."
     /\ 1 < i /\ i + 1 < j /\ j < Len(s)
     /\ Plain(s, 1, i - 1) /\ Plain(s, i + 1, j - 1) /\ Plain(s, j + 1, Len(s))

\* newErrors of validateForm: field name -> message
validateErrors_trimmedEmail(fd) ==
  LET f == IF Trim(fd.firstName) = EmptyText
           THEN {<<"firstName", "First name is required">>} ELSE {}
      l == IF Trim(fd.lastName) = EmptyText
           THEN {<<"lastName", "Last name is required">>} ELSE {}
      e == IF Trim(fd.email) = EmptyText
           THEN {<<"email", "Email is required">>}
           ELSE IF ~EmailPattern(Trim(fd.email))
                THEN {<<"email", "Please enter a valid email">>} ELSE {}
  IN  f \cup l \cup e

validateErrors(fd) ==
  LET f == IF Trim(fd.firstName) = EmptyText
           THEN {<<"firstName", "First name is required">>} ELSE {}
      l == IF Trim(fd.lastName) = EmptyText
           THEN {<<"lastName", "Last name is required">>} ELSE {}
      e == IF Trim(fd.email) = EmptyText
           THEN {<<"email", "Email is required">>}
           ELSE IF ~EmailPattern(fd.email)
                THEN {<<"email", "Please enter a valid email">>} ELSE {}
  IN  f \cup l \cup e

validateForm(fd) == validateErrors(fd) = {}

\* ------------------------------------------------------------- the queue
\* Date.now().toString()
IdOf(t) == ToString(t)

NewSubmission_syncing(data, t) ==
  [id |-> IdOf(t), data |-> data, timestamp |-> t, status |-> "syncing"]

NewSubmission(data, t) ==
  [id |-> IdOf(t), data |-> data, timestamp |-> t, status |-> "pending"]

\* offlineSubmissions.map(s => s.id === id ? { ...s, status } : s)
SetStatus(subs, id, st) ==
  [i \in DOMAIN subs |->
     IF subs[i].id = id THEN [subs[i] EXCEPT !.status = st] ELSE subs[i]]

PendingOf(subs) == SelectSeq(subs, LAMBDA s : s.status = "pending")
NotSynced(subs) == SelectSeq(subs, LAMBDA s : s.status # "synced")

\* ---------------------------------------------------------- localStorage
\* `storage` is << >> while the key was never set (getItem gives null) and
\* <<text>> once setItem has stored text
NoItem == << >>

\* JSON.stringify of the array: the members of each object in order
FormFields ==
  <<"firstName", "lastName", "email", "address", "city", "state", "postalCode">>

StringifyData(d) == [k \in 1..Len(FormFields) |-> <<FormFields[k], d[FormFields[k]]>>]

StringifySubmission(s) ==
  << <<"id", s.id>>, <<"data", StringifyData(s.data)>>,
     <<"timestamp", s.timestamp>>, <<"status", s.status>> >>

JSONstringify(subs) == [i \in DOMAIN subs |-> StringifySubmission(subs[i])]

Member(obj, key) == (CHOOSE k \in DOMAIN obj : obj[k][1] = key)

ParseData(o) == [f \in {FormFields[k] : k \in 1..Len(FormFields)} |-> o[Member(o, f)][2]]

ParseSubmission(o) ==
  [id |-> o[Member(o, "id")][2], data |-> ParseData(o[Member(o, "data")][2]),
   timestamp |-> o[Member(o, "timestamp")][2],
   status |-> o[Member(o, "status")][2]]

JSONparse(str) == [i \in DOMAIN str |-> ParseSubmission(str[i])]

\* saveOfflineSubmissions: setItem, a throw is caught and logged
saveOfflineSubmissions_pendingOnly(st, subs, ok) ==
  IF ok THEN <<JSONstringify(PendingOf(subs))>> ELSE st

saveOfflineSubmissions(st, subs, ok) ==
  IF ok THEN <<JSONstringify(subs)>> ELSE st

\* loadOfflineSubmissions: the queue after it ran in a fresh component
loadOfflineSubmissions(st) ==
  IF st # NoItem THEN JSONparse(st[1]) ELSE << >>

\* ----------------------------------------------------------------- toasts
\* addToast that shows nothing for a success
addToast_silentSuccess(ts, type, message, t) ==
  IF type = "success" THEN ts
  ELSE Append(ts, [id |-> IdOf(t), type |-> type, message |-> message])

\* addToast: the new entry, id is Date.now().toString(), appended
addToast(ts, type, message, t) ==
  Append(ts, [id |-> IdOf(t), type |-> type, message |-> message])

\* ------------------------------------------------- syncOfflineSubmissions
\* the component state a sync invocation reads and writes
CompState == [subs |-> offlineSubmissions, storage |-> storage, runs |-> runs,
              posted |-> << >>, dirty |-> dirty, started |-> 0]

Awaiting(rs) == {i \in DOMAIN rs : rs[i].pc = "await"}

\* The call up to its first await, made from a render whose queue was cq:
\* the early return, the info toast, and the first pass of the loop up to
\* the simulated API call.  A run keeps cq as snap, the pending submissions
\* it still has to finish as todo (the head is the one being awaited) and,
\* as history, who invoked it (by).  The catch branch is not modelled:
\* nothing in the try block throws (saveOfflineSubmissions catches its own
\* error and the awaited promise always resolves), so no status is ever
\* set to failed.  olap is history too: the runs (positions in `runs`) that
\* were awaiting their remote call when this one was invoked.
syncOfflineSubmissions_toastFirst(cq, cs, ok, by) ==
  LET pendingSubmissions == PendingOf(cq)
      updatedSubmissions == SetStatus(cq, pendingSubmissions[1].id, "syncing")
      announced == addToast(cs.posted, "info",
                            "Syncing " \o ToString(Len(pendingSubmissions))
                               \o " offline submission(s)...", now)
  IN  IF Len(pendingSubmissions) = 0 THEN [cs EXCEPT !.posted = announced]
      ELSE [subs    |-> updatedSubmissions,
            storage |-> saveOfflineSubmissions(cs.storage, updatedSubmissions, ok),
            runs    |-> Append(cs.runs, [snap |-> cq, todo |-> pendingSubmissions,
                                         pc |-> "await", at |-> now, by |-> by,
                                         olap |-> Awaiting(cs.runs)]),
            posted  |-> announced,
            dirty   |-> ~ok,
            started |-> cs.started + 1]

\* syncOfflineSubmissions looping over the whole queue, whatever the status
syncOfflineSubmissions_allItems(cq, cs, ok, by) ==
  LET pendingSubmissions == cq
      updatedSubmissions == SetStatus(cq, pendingSubmissions[1].id, "syncing")
  IN  IF Len(pendingSubmissions) = 0 THEN cs
      ELSE [subs    |-> updatedSubmissions,
            storage |-> saveOfflineSubmissions(cs.storage, updatedSubmissions, ok),
            runs    |-> Append(cs.runs, [snap |-> cq, todo |-> pendingSubmissions,
                                         pc |-> "await", at |-> now, by |-> by,
                                         olap |-> Awaiting(cs.runs)]),
            posted  |-> addToast(cs.posted, "info",
                                "Syncing " \o ToString(Len(pendingSubmissions))
                                   \o " offline submission(s)...", now),
            dirty   |-> ~ok,
            started |-> cs.started + 1]

syncOfflineSubmissions(cq, cs, ok, by) ==
  LET pendingSubmissions == PendingOf(cq)
      updatedSubmissions == SetStatus(cq, pendingSubmissions[1].id, "syncing")
  IN  IF Len(pendingSubmissions) = 0 THEN cs
      ELSE [subs    |-> updatedSubmissions,
            storage |-> saveOfflineSubmissions(cs.storage, updatedSubmissions, ok),
            runs    |-> Append(cs.runs, [snap |-> cq, todo |-> pendingSubmissions,
                                         pc |-> "await", at |-> now, by |-> by,
                                         olap |-> Awaiting(cs.runs)]),
            posted  |-> addToast(cs.posted, "info",
                                "Syncing " \o ToString(Len(pendingSubmissions))
                                   \o " offline submission(s)...", now),
            dirty   |-> ~ok,
            started |-> cs.started + 1]

\* updateOnlineStatus of one registered listener; c is what it captured
updateOnlineStatus(c, cs, online, ok) ==
  IF online /\ Len(c.subs) > 0 THEN syncOfflineSubmissions(c.subs, cs, ok, "online")
  ELSE cs

RECURSIVE Dispatch(_, _, _, _)
Dispatch(ls, cs, online, ok) ==
  IF ls = << >> THEN cs
  ELSE Dispatch(Tail(ls), updateOnlineStatus(Head(ls), cs, online, ok), online, ok)

\* the effect of the first render registers one listener pair; its deps are
\* [], so the pair keeps the first render's (empty) queue for ever
MountListeners == << [subs |-> << >>] >>

Remove(seq, i) == SubSeq(seq, 1, i - 1) \o SubSeq(seq, i + 1, Len(seq))

\* run r has returned: drop it, keeping the olap positions of the others right
Retire(rs, r) ==
  LET kept == Remove(rs, r)
      Shift(o) == {i \in o : i < r} \cup {i - 1 : i \in {k \in o : k > r}}
  IN  [i \in DOMAIN kept |-> [kept[i] EXCEPT !.olap = Shift(kept[i].olap)]]

CountPending(subs) == Len(PendingOf(subs))

\* ------------------------------------------------------------------ Init
\* the component after its first render and mount effect, nothing stored yet
Init ==
  /\ now = 0
  /\ navOnLine \in BOOLEAN
  /\ isOnline = navOnLine
  /\ storage = NoItem
  /\ offlineSubmissions = loadOfflineSubmissions(storage)
  /\ listeners = MountListeners
  /\ runs = << >>
  /\ toasts = << >>
  /\ events = << >>
  /\ swState = "parsed"
  /\ caches = NoCaches
  /\ answer = NoAnswer
  /\ idb = << >>
  /\ swLog = NoLog
  /\ posted = << >>
  /\ formData = EmptyForm
  /\ isSubmitting = FALSE
  /\ submitting = 0
  /\ dirty = FALSE
  /\ tracking = FALSE
  /\ watchId = 0
  /\ watches = {}
  /\ locationLoading = FALSE
  /\ location = NoFix
  /\ querying = FALSE

\* --------------------------------------------------------------- actions
\* time passes
Tick ==
  /\ now < MaxClock
  /\ now' = now + 1
  /\ posted' = << >>
  /\ UNCHANGED <<sinkVars, geoVars, navOnLine, isOnline, offlineSubmissions, storage, listeners,
                 runs, formData, isSubmitting, submitting, dirty>>

\* the browser flips navigator.onLine and fires the online/offline event
ConnectivityEvent ==
  \E ok \in BOOLEAN :
    LET online == ~navOnLine
        cs == Dispatch(listeners, CompState, online, ok)
    IN  /\ Len(runs) < MaxRuns
        /\ (cs.started = 0 => ok)
        /\ navOnLine' = online
        /\ isOnline' = online
        /\ offlineSubmissions' = cs.subs
        /\ storage' = cs.storage
        /\ runs' = cs.runs
        /\ posted' = cs.posted
        /\ dirty' = cs.dirty
        /\ UNCHANGED <<sinkVars, geoVars, now, listeners, formData, isSubmitting, submitting>>

\* a click on Sync Now, rendered while isOnline and the queue is not empty
SyncNow ==
  \E ok \in BOOLEAN :
    LET cs == syncOfflineSubmissions(offlineSubmissions, CompState, ok, "button")
    IN  /\ isOnline /\ Len(offlineSubmissions) > 0
        /\ Len(runs) < MaxRuns
        /\ (cs.started = 0 => ok)
        /\ offlineSubmissions' = cs.subs
        /\ storage' = cs.storage
        /\ runs' = cs.runs
        /\ posted' = cs.posted
        /\ dirty' = cs.dirty
        /\ UNCHANGED <<sinkVars, geoVars, now, navOnLine, isOnline, listeners, formData,
                       isSubmitting, submitting>>

\* the simulated API call of run r resolves: the rest of the loop pass (the
\* synced write and toast), then either the next pass up to its await or
\* the end of the loop, where the removal timer is set
SyncTimer(r) ==
  \E ok1 \in BOOLEAN, ok2 \in BOOLEAN :
    LET run == runs[r]
        submission == Head(run.todo)
        rest == Tail(run.todo)
        finalSubmissions == SetStatus(run.snap, submission.id, "synced")
        st1 == saveOfflineSubmissions(storage, finalSubmissions, ok1)
        updatedSubmissions == SetStatus(run.snap, rest[1].id, "syncing")
    IN  /\ run.pc = "await"
        /\ now > run.at
        /\ posted' = addToast(<< >>, "success", "Offline submission synced successfully!", now)
        /\ IF rest = << >>
           THEN /\ ok2
                /\ offlineSubmissions' = finalSubmissions
                /\ storage' = st1
                /\ dirty' = ~ok1
                /\ runs' = [runs EXCEPT ![r] = [run EXCEPT !.pc = "grace", !.at = now]]
           ELSE /\ offlineSubmissions' = updatedSubmissions
                /\ storage' = saveOfflineSubmissions(st1, updatedSubmissions, ok2)
                /\ dirty' = ~ok2
                /\ runs' = [runs EXCEPT ![r] = [run EXCEPT !.todo = rest, !.at = now]]
        /\ UNCHANGED <<sinkVars, geoVars, now, navOnLine, isOnline, listeners, formData,
                       isSubmitting, submitting>>

\* the 3 s removal timer of run r fires
GraceTimer(r) ==
  \E ok \in BOOLEAN :
    LET run == runs[r]
        remainingSubmissions == NotSynced(run.snap)
    IN  /\ run.pc = "grace"
        /\ now > run.at
        /\ offlineSubmissions' = remainingSubmissions
        /\ storage' = saveOfflineSubmissions(storage, remainingSubmissions, ok)
        /\ dirty' = ~ok
        /\ runs' = Retire(runs, r)
        /\ posted' = << >>
        /\ UNCHANGED <<sinkVars, geoVars, now, navOnLine, isOnline, listeners, formData,
                       isSubmitting, submitting>>

\* the user edits one field
handleInputChange(name, value) ==
  /\ value # formData[name]
  /\ formData' = [formData EXCEPT ![name] = value]
  /\ posted' = << >>
  /\ UNCHANGED <<sinkVars, geoVars, now, navOnLine, isOnline, offlineSubmissions, storage,
                 listeners, runs, isSubmitting, submitting, dirty>>

\* saveOfflineSubmission: append to the queue of the current render, persist
saveOfflineSubmission_rollback(subs, st, data, t, ok) ==
  LET updatedSubmissions == Append(subs, NewSubmission(data, t))
  IN  [subs    |-> IF ok THEN updatedSubmissions ELSE subs,
       storage |-> saveOfflineSubmissions(st, updatedSubmissions, ok)]

saveOfflineSubmission_prepend(subs, st, data, t, ok) ==
  LET updatedSubmissions == <<NewSubmission(data, t)>> \o subs
  IN  [subs    |-> updatedSubmissions,
       storage |-> saveOfflineSubmissions(st, updatedSubmissions, ok)]

saveOfflineSubmission(subs, st, data, t, ok) ==
  LET updatedSubmissions == Append(subs, NewSubmission(data, t))
  IN  [subs    |-> updatedSubmissions,
       storage |-> saveOfflineSubmissions(st, updatedSubmissions, ok)]

\* handleSubmit, validation fails
SubmitInvalid_resetsForm ==
  /\ ~isSubmitting
  /\ ~validateForm(formData)
  /\ posted' = addToast(<< >>, "error", "Please fix the errors in the form", now)
  /\ formData' = EmptyForm
  /\ UNCHANGED <<sinkVars, geoVars, now, navOnLine, isOnline, offlineSubmissions, storage,
                 listeners, runs, isSubmitting, submitting, dirty>>

SubmitInvalid ==
  /\ ~isSubmitting
  /\ ~validateForm(formData)
  /\ posted' = addToast(<< >>, "error", "Please fix the errors in the form", now)
  /\ UNCHANGED <<sinkVars, geoVars, now, navOnLine, isOnline, offlineSubmissions, storage,
                 listeners, runs, formData, isSubmitting, submitting, dirty>>

\* handleSubmit's offline path without its setIsSubmitting(false) and
\* without the finally block
SubmitOffline_staysSubmitting(data) ==
  \E ok \in BOOLEAN :
    LET saved == saveOfflineSubmission(offlineSubmissions, storage, data, now, ok)
    IN  /\ ~isSubmitting
        /\ validateForm(data)
        /\ ~isOnline
        /\ Len(offlineSubmissions) < MaxQueue
        /\ offlineSubmissions' = saved.subs
        /\ storage' = saved.storage
        /\ dirty' = ~ok
        /\ posted' = addToast(<< >>, "offline",
                           "Form saved offline! Will sync when connection returns.", now)
        /\ formData' = EmptyForm
        /\ isSubmitting' = TRUE
        /\ UNCHANGED <<sinkVars, geoVars, now, navOnLine, isOnline, listeners, runs, submitting>>

\* handleSubmit, valid form while isOnline is false; data is the formData of
\* the render the handler belongs to
SubmitOffline(data) ==
  \E ok \in BOOLEAN :
    LET saved == saveOfflineSubmission(offlineSubmissions, storage, data, now, ok)
    IN  /\ ~isSubmitting
        /\ validateForm(data)
        /\ ~isOnline
        /\ Len(offlineSubmissions) < MaxQueue
        /\ offlineSubmissions' = saved.subs
        /\ storage' = saved.storage
        /\ dirty' = ~ok
        /\ posted' = addToast(<< >>, "offline",
                           "Form saved offline! Will sync when connection returns.", now)
        /\ formData' = EmptyForm
        /\ isSubmitting' = FALSE
        /\ UNCHANGED <<sinkVars, geoVars, now, navOnLine, isOnline, listeners, runs, submitting>>

\* handleSubmit, valid form while isOnline is true, up to the await
SubmitOnline ==
  /\ ~isSubmitting
  /\ validateForm(formData)
  /\ isOnline
  /\ isSubmitting' = TRUE
  /\ submitting' = submitting + 1
  /\ posted' = addToast(<< >>, "info", "Submitting form...", now)
  /\ UNCHANGED <<sinkVars, geoVars, now, navOnLine, isOnline, offlineSubmissions, storage,
                 listeners, runs, formData, dirty>>

\* the simulated remote call of an online submit resolves; Math.random()
\* decides the outcome
SubmitResolve_queuesFailure ==
  \E isSuccess \in BOOLEAN :
    /\ submitting > 0
    /\ submitting' = submitting - 1
    /\ isSubmitting' = FALSE
    /\ IF isSuccess
       THEN /\ posted' = addToast(<< >>, "success",
                 "Form submitted successfully! Welcome to the workspace!", now)
            /\ formData' = EmptyForm
            /\ UNCHANGED offlineSubmissions
       ELSE /\ posted' = addToast(<< >>, "error", "Submission failed. Please try again.", now)
            /\ offlineSubmissions' = Append(offlineSubmissions, NewSubmission(formData, now))
            /\ UNCHANGED formData
    /\ UNCHANGED <<sinkVars, geoVars, now, navOnLine, isOnline, storage,
                   listeners, runs, dirty>>

SubmitResolve ==
  \E isSuccess \in BOOLEAN :
    /\ submitting > 0
    /\ submitting' = submitting - 1
    /\ isSubmitting' = FALSE
    /\ IF isSuccess
       THEN /\ posted' = addToast(<< >>, "success",
                 "Form submitted successfully! Welcome to the workspace!", now)
            /\ formData' = EmptyForm
       ELSE /\ posted' = addToast(<< >>, "error", "Submission failed. Please try again.", now)
            /\ UNCHANGED formData
    /\ UNCHANGED <<sinkVars, geoVars, now, navOnLine, isOnline, offlineSubmissions, storage,
                   listeners, runs, dirty>>

\* the page is reloaded: component state, timers and pending promises are
\* gone; first render, then the mount effect (setIsOnline, load)
Reload ==
  /\ isOnline' = navOnLine
  /\ offlineSubmissions' = loadOfflineSubmissions(storage)
  /\ listeners' = MountListeners
  /\ runs' = << >>
  /\ posted' = << >>
  /\ formData' = EmptyForm
  /\ isSubmitting' = FALSE
  /\ submitting' = 0
  /\ dirty' = FALSE
  /\ UNCHANGED <<sinkVars, geoVars, now, navOnLine, storage>>

Next ==
  \/ Tick
  \/ ConnectivityEvent
  \/ SyncNow
  \/ \E r \in DOMAIN runs : SyncTimer(r)
  \/ \E r \in DOMAIN runs : GraceTimer(r)
  \/ \E data \in TypedForms : SubmitOffline(data)
  \/ Reload

Spec == Init /\ [][Next]_vars

\* The clock's range is finite, so SpecRun keeps every run inside it: a
\* timer that is due fires before the clock moves on, and Sync Now is
\* clicked only while the range still holds one tick for each simulated
\* remote call of the run it starts and one for its grace timer.
TickOnTime ==
  /\ \A r \in DOMAIN runs : now <= runs[r].at
  /\ Tick

SyncNowInTime ==
  /\ now + CountPending(offlineSubmissions) + 1 <= MaxClock
  /\ SyncNow

NextRun ==
  \/ TickOnTime
  \/ ConnectivityEvent
  \/ SyncNowInTime
  \/ \E r \in DOMAIN runs : SyncTimer(r)
  \/ \E r \in DOMAIN runs : GraceTimer(r)
  \/ \E data \in TypedForms : SubmitOffline(data)
  \/ Reload

\* the event loop runs every timer that is due, and time passes
SpecRun ==
  /\ Init /\ [][NextRun]_vars
  /\ WF_vars(TickOnTime)
  /\ \A r \in 1..MaxRuns :
        /\ WF_vars(r \in DOMAIN runs /\ SyncTimer(r))
        /\ WF_vars(r \in DOMAIN runs /\ GraceTimer(r))

\* the form of form-layout.tsx on its own: typing, validation, both submit
\* paths; the queue is only appended to
NextForm ==
  \/ Tick
  \/ ConnectivityEvent
  \/ \E name \in FieldNames : \E value \in InputValues(name) :
        handleInputChange(name, value)
  \/ SubmitInvalid
  \/ SubmitOffline(formData)
  \/ SubmitOnline
  \/ SubmitResolve
  \/ Reload

SpecForm == Init /\ [][NextForm]_vars

\* Connectivity on its own: the component before its mount effect, the
\* browser changing navigator.onLine and queueing the event, and the listener
\* handling it later.
InitOnline ==
  /\ now = 0
  /\ navOnLine \in BOOLEAN
  /\ isOnline = TRUE
  /\ storage = NoItem
  /\ offlineSubmissions = << >>
  /\ listeners = << >>
  /\ runs = << >>
  /\ toasts = << >>
  /\ events = << >>
  /\ swState = "parsed"
  /\ caches = NoCaches
  /\ answer = NoAnswer
  /\ idb = << >>
  /\ swLog = NoLog
  /\ posted = << >>
  /\ formData = EmptyForm
  /\ isSubmitting = FALSE
  /\ submitting = 0
  /\ dirty = FALSE
  /\ tracking = FALSE
  /\ watchId = 0
  /\ watches = {}
  /\ locationLoading = FALSE
  /\ location = NoFix
  /\ querying = FALSE

\* the mount effect: register the listeners, setIsOnline(navigator.onLine),
\* loadOfflineSubmissions
Mount ==
  /\ listeners = << >>
  /\ listeners' = MountListeners
  /\ isOnline' = navOnLine
  /\ offlineSubmissions' = loadOfflineSubmissions(storage)
  /\ posted' = << >>
  /\ UNCHANGED <<sinkVars, geoVars, now, navOnLine, storage, runs, formData,
                 isSubmitting, submitting, dirty>>

\* the browser changes navigator.onLine and queues the event for the
\* listeners registered at that time
EnvFlip ==
  /\ Len(events) < MaxEvents
  /\ navOnLine' = ~navOnLine
  /\ events' = IF listeners = << >> THEN events
               ELSE Append(events, IF navOnLine THEN "offline" ELSE "online")
  /\ posted' = << >>
  /\ UNCHANGED <<toasts, swVars, geoVars, now, isOnline, offlineSubmissions, storage,
                 listeners, runs, formData, isSubmitting, submitting, dirty>>

\* const online = navigator.onLine: read when the event is handled
OnlineRead_fromEvent(type, nav) == type = "online"

OnlineRead(type, nav) == nav

\* updateOnlineStatus handles the oldest event in flight
HandleEvent ==
  \E ok \in BOOLEAN :
    LET online == OnlineRead(Head(events), navOnLine)
        cs == Dispatch(listeners, CompState, online, ok)
    IN  /\ events # << >>
        /\ Len(runs) < MaxRuns
        /\ (cs.started = 0 => ok)
        /\ events' = Tail(events)
        /\ isOnline' = online
        /\ offlineSubmissions' = cs.subs
        /\ storage' = cs.storage
        /\ runs' = cs.runs
        /\ posted' = cs.posted
        /\ dirty' = cs.dirty
        /\ UNCHANGED <<toasts, swVars, geoVars, now, navOnLine, listeners, formData,
                       isSubmitting, submitting>>

NextOnline ==
  \/ Mount
  \/ EnvFlip
  \/ HandleEvent
  \/ Tick
  \/ \E data \in TypedForms : SubmitOffline(data)
  \/ SyncNow
  \/ \E r \in DOMAIN runs : SyncTimer(r)
  \/ \E r \in DOMAIN runs : GraceTimer(r)

SpecOnline == InitOnline /\ [][NextOnline]_vars

\* validateForm over arbitrary short texts: the form holds what the user has
\* typed or pasted, then a submit is handled
Alphabet == {"a", "@", ".", " "}

TextsUpTo(n) == UNION {[1..k -> Alphabet] : k \in 0..n}

NameTexts == {<< >>, <<" ">>, <<" ", "a", " ">>}

ValidateInputs ==
  {[EmptyForm EXCEPT !.firstName = f, !.lastName = l, !.email = e] :
     f \in NameTexts, l \in NameTexts, e \in TextsUpTo(MaxEmailLen)}

InitValidate ==
  /\ now = 0
  /\ navOnLine \in BOOLEAN
  /\ isOnline = navOnLine
  /\ storage = NoItem
  /\ offlineSubmissions = loadOfflineSubmissions(storage)
  /\ listeners = MountListeners
  /\ runs = << >>
  /\ toasts = << >>
  /\ events = << >>
  /\ swState = "parsed"
  /\ caches = NoCaches
  /\ answer = NoAnswer
  /\ idb = << >>
  /\ swLog = NoLog
  /\ posted = << >>
  /\ formData \in ValidateInputs
  /\ isSubmitting = FALSE
  /\ submitting = 0
  /\ dirty = FALSE
  /\ tracking = FALSE
  /\ watchId = 0
  /\ watches = {}
  /\ locationLoading = FALSE
  /\ location = NoFix
  /\ querying = FALSE

NextValidate ==
  \/ SubmitInvalid
  \/ SubmitOffline(formData)
  \/ SubmitOnline
  \/ SubmitResolve

SpecValidate == InitValidate /\ [][NextValidate]_vars

\* ======================================================================
\* The geolocation FormLayout (second file of src/src/app/page.tsx).  It has
\* no localStorage code: storage and dirty never change.  Tick is shared.

\* the connectivity effect runs again after every render in which
\* offlineSubmissions.length, syncOfflineSubmissions (a new function for every
\* new offlineSubmissions array) or watchId changed: the cleanup of the
\* previous run, with the watchId that run captured, then the new
\* registration.  ls and ws are the listeners and the geolocation watches.
useEffect_keepOld(ls, ws, subs, wid) ==
  LET old == ls[Len(ls)]
  IN  [listeners |-> Append(ls, [subs |-> subs, watchId |-> wid]),
       watches   |-> IF old.watchId # 0 THEN ws \ {old.watchId} ELSE ws]

useEffect(ls, ws, subs, wid) ==
  LET old == ls[Len(ls)]
  IN  [listeners |-> Append(SubSeq(ls, 1, Len(ls) - 1),
                            [subs |-> subs, watchId |-> wid]),
       watches   |-> IF old.watchId # 0 THEN ws \ {old.watchId} ELSE ws]

GeoMountListeners == << [subs |-> << >>, watchId |-> 0] >>

\* syncOfflineSubmissions of page.tsx up to its first await
GeoSyncOfflineSubmissions(cq, cs, by) ==
  LET pendingSubmissions == PendingOf(cq)
      updatedSubmissions == SetStatus(cq, pendingSubmissions[1].id, "syncing")
  IN  IF Len(pendingSubmissions) = 0 THEN cs
      ELSE [subs    |-> updatedSubmissions,
            storage |-> cs.storage,
            runs    |-> Append(cs.runs, [snap |-> cq, todo |-> pendingSubmissions,
                                         pc |-> "await", at |-> now, by |-> by,
                                         olap |-> Awaiting(cs.runs)]),
            posted  |-> addToast(cs.posted, "info",
                                "Syncing " \o ToString(Len(pendingSubmissions))
                                   \o " offline submission(s)...", now),
            dirty   |-> cs.dirty,
            started |-> cs.started + 1]

GeoUpdateOnlineStatus(c, cs, online) ==
  IF online /\ Len(c.subs) > 0
  THEN GeoSyncOfflineSubmissions(c.subs, cs, "online")
  ELSE cs

RECURSIVE GeoDispatch(_, _, _)
GeoDispatch(ls, cs, online) ==
  IF ls = << >> THEN cs
  ELSE GeoDispatch(Tail(ls), GeoUpdateOnlineStatus(Head(ls), cs, online), online)

InitGeo ==
  /\ now = 0
  /\ navOnLine \in BOOLEAN
  /\ isOnline = navOnLine
  /\ storage = NoItem
  /\ offlineSubmissions = << >>
  /\ listeners = GeoMountListeners
  /\ runs = << >>
  /\ toasts = << >>
  /\ events = << >>
  /\ swState = "parsed"
  /\ caches = NoCaches
  /\ answer = NoAnswer
  /\ idb = << >>
  /\ swLog = NoLog
  /\ posted = << >>
  /\ formData = EmptyForm
  /\ isSubmitting = FALSE
  /\ submitting = 0
  /\ dirty = FALSE
  /\ tracking = FALSE
  /\ watchId = 0
  /\ watches = {}
  /\ locationLoading = FALSE
  /\ location = NoFix
  /\ querying = FALSE

\* the render after a handler that called setOfflineSubmissions(subs) or
\* setWatchId(wid): the connectivity effect runs again
Rerender(subs, wid, ws) ==
  LET eff == useEffect(listeners, ws, subs, wid)
  IN  /\ listeners' = eff.listeners
      /\ watches' = eff.watches

GeoConnectivityEvent ==
  LET online == ~navOnLine
      cs == GeoDispatch(listeners, CompState, online)
  IN  /\ Len(runs) < MaxRuns
      /\ navOnLine' = online
      /\ isOnline' = online
      /\ offlineSubmissions' = cs.subs
      /\ runs' = cs.runs
      /\ posted' = cs.posted
      /\ IF cs.started > 0
         THEN Rerender(cs.subs, watchId, watches)
         ELSE UNCHANGED <<listeners, watches>>
      /\ UNCHANGED <<sinkVars, now, storage, dirty, formData, isSubmitting, submitting,
                     tracking, watchId, locVars>>

GeoSyncNow ==
  LET cs == GeoSyncOfflineSubmissions(offlineSubmissions, CompState, "button")
  IN  /\ isOnline /\ Len(offlineSubmissions) > 0
      /\ Len(runs) < MaxRuns
      /\ offlineSubmissions' = cs.subs
      /\ runs' = cs.runs
      /\ posted' = cs.posted
      /\ IF cs.started > 0
         THEN Rerender(cs.subs, watchId, watches)
         ELSE UNCHANGED <<listeners, watches>>
      /\ UNCHANGED <<sinkVars, now, navOnLine, isOnline, storage, dirty, formData,
                     isSubmitting, submitting, tracking, watchId, locVars>>

GeoSyncTimer(r) ==
  LET run == runs[r]
      submission == Head(run.todo)
      rest == Tail(run.todo)
      finalSubmissions == SetStatus(run.snap, submission.id, "synced")
      updatedSubmissions == SetStatus(run.snap, rest[1].id, "syncing")
      written == IF rest = << >> THEN finalSubmissions ELSE updatedSubmissions
  IN  /\ run.pc = "await"
      /\ now > run.at
      /\ posted' = addToast(<< >>, "success", "Offline submission synced successfully!", now)
      /\ offlineSubmissions' = written
      /\ runs' = IF rest = << >>
                 THEN [runs EXCEPT ![r] = [run EXCEPT !.pc = "grace", !.at = now]]
                 ELSE [runs EXCEPT ![r] = [run EXCEPT !.todo = rest, !.at = now]]
      /\ Rerender(written, watchId, watches)
      /\ UNCHANGED <<sinkVars, now, navOnLine, isOnline, storage, dirty, formData,
                     isSubmitting, submitting, tracking, watchId, locVars>>

GeoGraceTimer(r) ==
  LET run == runs[r]
      remainingSubmissions == NotSynced(run.snap)
  IN  /\ run.pc = "grace"
      /\ now > run.at
      /\ offlineSubmissions' = remainingSubmissions
      /\ runs' = Retire(runs, r)
      /\ Rerender(remainingSubmissions, watchId, watches)
      /\ posted' = << >>
      /\ UNCHANGED <<sinkVars, now, navOnLine, isOnline, storage, dirty, formData,
                     isSubmitting, submitting, tracking, watchId, locVars>>

\* saveOfflineSubmission of page.tsx: append only
GeoSaveOfflineSubmission(subs, data, t) == Append(subs, NewSubmission(data, t))

GeoSubmitOffline(data) ==
  LET updatedSubmissions == GeoSaveOfflineSubmission(offlineSubmissions, data, now)
  IN  /\ ~isSubmitting
      /\ validateForm(data)
      /\ ~isOnline
      /\ Len(offlineSubmissions) < MaxQueue
      /\ offlineSubmissions' = updatedSubmissions
      /\ posted' = addToast(<< >>, "offline",
                           "Form saved offline! Will sync when connection returns.", now)
      /\ formData' = EmptyForm
      /\ location' = NoFix
      /\ isSubmitting' = FALSE
      /\ Rerender(updatedSubmissions, watchId, watches)
      /\ UNCHANGED <<sinkVars, now, navOnLine, isOnline, storage, dirty, runs, submitting,
                     tracking, watchId, locationLoading, querying>>

\* navigator.geolocation.watchPosition returns an id no live reference uses
NewWatchId ==
  LET used == watches \cup {watchId} \cup {listeners[i].watchId : i \in DOMAIN listeners}
  IN  CHOOSE n \in 1..(Cardinality(used) + 1) :
        n \notin used /\ \A m \in 1..(n - 1) : m \in used

\* handleStopTracking, read from the current render
handleStopTracking ==
  /\ tracking
  /\ tracking' = FALSE
  /\ watchId' = 0
  /\ posted' = addToast(<< >>, "info", "Location tracking stopped", now)
  /\ IF watchId # 0
     THEN Rerender(offlineSubmissions, 0, watches \ {watchId})
     ELSE UNCHANGED <<listeners, watches>>
  /\ UNCHANGED <<sinkVars, now, navOnLine, isOnline, offlineSubmissions, storage, dirty,
                 runs, formData, isSubmitting, submitting, locVars>>

\* handleStartTracking: the button toggles
handleStartTracking ==
  \/ handleStopTracking
  \/ /\ ~tracking
     /\ tracking' = TRUE
     /\ watchId' = NewWatchId
     /\ posted' = addToast(<< >>, "info", "Location tracking started", now)
     /\ Rerender(offlineSubmissions, NewWatchId, watches \cup {NewWatchId})
     /\ UNCHANGED <<sinkVars, now, navOnLine, isOnline, offlineSubmissions, storage,
                    dirty, runs, formData, isSubmitting, submitting, locVars>>

\* reload of the page: nothing was stored, the browser drops the watches
GeoReload ==
  /\ isOnline' = navOnLine
  /\ offlineSubmissions' = << >>
  /\ listeners' = GeoMountListeners
  /\ runs' = << >>
  /\ posted' = << >>
  /\ formData' = EmptyForm
  /\ isSubmitting' = FALSE
  /\ submitting' = 0
  /\ tracking' = FALSE
  /\ watchId' = 0
  /\ watches' = {}
  /\ locationLoading' = FALSE
  /\ location' = NoFix
  /\ querying' = FALSE
  /\ UNCHANGED <<sinkVars, now, navOnLine, storage, dirty>>

NextGeo ==
  \/ Tick
  \/ GeoConnectivityEvent
  \/ GeoSyncNow
  \/ \E r \in DOMAIN runs : GeoSyncTimer(r)
  \/ \E r \in DOMAIN runs : GeoGraceTimer(r)
  \/ \E data \in TypedForms : GeoSubmitOffline(data)
  \/ handleStartTracking
  \/ GeoReload

SpecGeo == InitGeo /\ [][NextGeo]_vars

\* ======================================================================
\* Geolocation of page.tsx: the one-shot query, the watch and Clear Form.

\* handleGetLocation up to the getCurrentPosition call; the button is
\* disabled while locationLoading
handleGetLocation ==
  /\ ~locationLoading
  /\ locationLoading' = TRUE
  /\ querying' = TRUE
  /\ posted' = << >>
  /\ UNCHANGED <<sinkVars, now, navOnLine, isOnline, offlineSubmissions, storage, dirty,
                 listeners, runs, formData, isSubmitting, submitting, tracking,
                 watchId, watches, location>>

\* the success callback of getCurrentPosition
GetLocationSuccess(fix) ==
  /\ querying
  /\ querying' = FALSE
  /\ location' = fix
  /\ tracking' = FALSE
  /\ locationLoading' = FALSE
  /\ posted' = addToast(<< >>, "success", "Location obtained successfully!", now)
  /\ UNCHANGED <<sinkVars, now, navOnLine, isOnline, offlineSubmissions, storage, dirty,
                 listeners, runs, formData, isSubmitting, submitting, watchId, watches>>

\* an error callback of getCurrentPosition that also drops the position
GetLocationError_clears(code) ==
  /\ querying
  /\ querying' = FALSE
  /\ location' = NoFix
  /\ posted' = addToast(<< >>, "error", "Failed to get location: " \o code, now)
  /\ locationLoading' = FALSE
  /\ UNCHANGED <<sinkVars, now, navOnLine, isOnline, offlineSubmissions, storage, dirty,
                 listeners, runs, formData, isSubmitting, submitting, tracking,
                 watchId, watches>>

\* the error callback of getCurrentPosition
GetLocationError(code) ==
  /\ querying
  /\ querying' = FALSE
  /\ posted' = addToast(<< >>, "error", "Failed to get location: " \o code, now)
  /\ locationLoading' = FALSE
  /\ UNCHANGED <<sinkVars, now, navOnLine, isOnline, offlineSubmissions, storage, dirty,
                 listeners, runs, formData, isSubmitting, submitting, tracking,
                 watchId, watches, location>>

\* the success callback of watchPosition, for a watch still registered
WatchFix(w, fix) ==
  /\ w \in watches
  /\ location' = fix
  /\ posted' = << >>
  /\ UNCHANGED <<sinkVars, now, navOnLine, isOnline, offlineSubmissions, storage, dirty,
                 listeners, runs, formData, isSubmitting, submitting, tracking,
                 watchId, watches, locationLoading, querying>>

\* the error callback of watchPosition; the browser keeps the watch
WatchError(w, code) ==
  /\ w \in watches
  /\ posted' = addToast(<< >>, "error", "Failed to track location: " \o code, now)
  /\ tracking' = FALSE
  /\ UNCHANGED <<sinkVars, now, navOnLine, isOnline, offlineSubmissions, storage, dirty,
                 listeners, runs, formData, isSubmitting, submitting,
                 watchId, watches, locVars>>

\* the Clear Form button
ClearForm ==
  /\ formData' = EmptyForm
  /\ location' = NoFix
  /\ tracking' = FALSE
  /\ watchId' = 0
  /\ posted' = << >>
  /\ IF watchId # 0
     THEN Rerender(offlineSubmissions, 0, watches \ {watchId})
     ELSE UNCHANGED <<listeners, watches>>
  /\ UNCHANGED <<sinkVars, now, navOnLine, isOnline, offlineSubmissions, storage, dirty,
                 runs, isSubmitting, submitting, locationLoading, querying>>

\* the clock stands still here: the sync runs an online event starts stay at
\* their first remote call (their timers are SpecGeo's)
NextLoc ==
  \/ GeoConnectivityEvent
  \/ \E name \in FieldNames : \E value \in InputValues(name) :
        handleInputChange(name, value)
  \/ GeoSubmitOffline(formData)
  \/ handleStartTracking
  \/ handleGetLocation
  \/ \E fix \in Fixes : GetLocationSuccess(fix)
  \/ \E code \in ErrorCodes : GetLocationError(code)
  \/ \E w \in watches : \E fix \in Fixes : WatchFix(w, fix)
  \/ \E w \in watches : \E code \in ErrorCodes : WatchError(w, code)
  \/ ClearForm
  \/ GeoReload

SpecLoc == InitGeo /\ [][NextLoc]_vars

\* ======================================================================
\* The service worker (public/sw.js) next to the form of form-layout.tsx.

Methods == {"GET", "POST"}

RequestUrls ==
  {Own("/"), Own("/offline.html"), Own("/api/items"), Own("/photo.png"), Own("/about"),
   [scheme |-> "chrome-extension", path |-> "/page.js"]}

\* request.mode and request.destination: a navigation asks for a document
ModeDestinations ==
  {<<"navigate", "document">>, <<"no-cors", "image">>, <<"cors", "">>}

Requests ==
  {[method |-> m, url |-> u, mode |-> k[1], destination |-> k[2]] :
     m \in Methods, u \in RequestUrls, k \in ModeDestinations}

\* fetch(fetchRequest): rejects, resolves with a 200 basic response, or
\* resolves with a 404
NetOutcomes == {"fail", "ok", "notfound"}

\* request.url.startsWith('http')
startsWithHttp(url) == url.scheme \in {"http", "https"}

\* caches.match(request): some cache holds the URL
Matches(cs, url) == \E n \in CacheNames : url \in cs[n]

\* the install listener that does not wait for the caches to fill
InstallEvent_noWait(okStatic, okOffline) ==
  /\ swState = "parsed"
  /\ caches' = [caches EXCEPT
                  ![STATIC_CACHE] = IF okStatic THEN @ \cup urlsToCache ELSE @,
                  ![OFFLINE_CACHE] = IF okOffline THEN @ \cup {Own("/offline.html")} ELSE @]
  /\ swState' = "installed"
  /\ posted' = << >>
  /\ UNCHANGED <<toasts, events, answer, idb, swLog, geoVars, now, navOnLine, isOnline,
                 offlineSubmissions, storage, listeners, runs, formData,
                 isSubmitting, submitting, dirty>>

\* the install listener: each cache.addAll adds all its URLs or none; the
\* worker is installed (and skips waiting) only when both succeeded
InstallEvent(okStatic, okOffline) ==
  /\ swState = "parsed"
  /\ caches' = [caches EXCEPT
                  ![STATIC_CACHE] = IF okStatic THEN @ \cup urlsToCache ELSE @,
                  ![OFFLINE_CACHE] = IF okOffline THEN @ \cup {Own("/offline.html")} ELSE @]
  /\ swState' = IF okStatic /\ okOffline THEN "installed" ELSE "redundant"
  /\ posted' = << >>
  /\ UNCHANGED <<toasts, events, answer, idb, swLog, geoVars, now, navOnLine, isOnline,
                 offlineSubmissions, storage, listeners, runs, formData,
                 isSubmitting, submitting, dirty>>

\* the page registers the worker again after a failed install
Register ==
  /\ swState = "redundant"
  /\ swState' = "parsed"
  /\ posted' = << >>
  /\ UNCHANGED <<toasts, events, caches, answer, idb, swLog, geoVars, now, navOnLine,
                 isOnline, offlineSubmissions, storage, listeners, runs, formData,
                 isSubmitting, submitting, dirty>>

\* the activate listener: every cache but the three named ones is deleted
ActivateEvent ==
  /\ swState = "installed"
  /\ caches' = [n \in CacheNames |->
                  IF n # STATIC_CACHE /\ n # DYNAMIC_CACHE /\ n # OFFLINE_CACHE
                  THEN {} ELSE caches[n]]
  /\ swState' = "activated"
  /\ posted' = << >>
  /\ UNCHANGED <<toasts, events, answer, idb, swLog, geoVars, now, navOnLine, isOnline,
                 offlineSubmissions, storage, listeners, runs, formData,
                 isSubmitting, submitting, dirty>>

\* the fetch listener: what the request is answered with
fetchAnswer(cs, request, net) ==
  IF request.method # "GET" THEN [kind |-> "passthrough", url |-> NoUrl, fetched |-> FALSE]
  ELSE IF ~startsWithHttp(request.url)
  THEN [kind |-> "passthrough", url |-> NoUrl, fetched |-> FALSE]
  ELSE IF Matches(cs, request.url)
  THEN [kind |-> "cache", url |-> request.url, fetched |-> FALSE]
  ELSE IF net = "fail"
  THEN IF request.mode = "navigate"
       THEN IF Matches(cs, Own("/offline.html"))
            THEN [kind |-> "cache", url |-> Own("/offline.html"), fetched |-> TRUE]
            ELSE [kind |-> "undefined", url |-> NoUrl, fetched |-> TRUE]
       ELSE IF request.destination = "image"
            THEN [kind |-> "svg", url |-> NoUrl, fetched |-> TRUE]
            ELSE [kind |-> "503", url |-> NoUrl, fetched |-> TRUE]
  ELSE [kind |-> net, url |-> request.url, fetched |-> TRUE]

\* the fetch listener: the caches after it (a 200 basic response is stored)
fetchCaches(cs, request, net) ==
  IF /\ request.method = "GET"
     /\ startsWithHttp(request.url)
     /\ ~Matches(cs, request.url)
     /\ net = "ok"
  THEN [cs EXCEPT ![DYNAMIC_CACHE] = @ \cup {request.url}]
  ELSE cs

\* a fetch event of a page the activated worker controls
FetchEvent(request, net) ==
  /\ swState = "activated"
  /\ answer' = fetchAnswer(caches, request, net)
  /\ caches' = fetchCaches(caches, request, net)
  /\ posted' = << >>
  /\ UNCHANGED <<toasts, events, swState, idb, swLog, geoVars, now, navOnLine, isOnline,
                 offlineSubmissions, storage, listeners, runs, formData,
                 isSubmitting, submitting, dirty>>

\* ======================================================================
\* The toast list (addToast, form-layout.tsx 103-112; page.tsx 160-169 is
\* the same text).

ToastKinds ==
  { <<"info", "Submitting form...">>,
    <<"success", "Offline submission synced successfully!">>,
    <<"offline", "Form saved offline! Will sync when connection returns.">>,
    <<"error", "Please fix the errors in the form">> }

\* some handler calls addToast(type, message)
PostToast(type, message) ==
  /\ Len(toasts) < MaxToasts
  /\ toasts' = addToast(toasts, type, message, now)
  /\ posted' = addToast(<< >>, type, message, now)
  /\ UNCHANGED <<geoVars, swVars, events, now, navOnLine, isOnline, offlineSubmissions,
                 storage, listeners, runs, formData, isSubmitting, submitting, dirty>>

\* the 5 s timer of toast i fires and clears the whole list
ExpireToast_all(i) ==
  /\ toasts[i].id \in {IdOf(t) : t \in 0..(now - 1)}
  /\ toasts' = << >>
  /\ posted' = << >>
  /\ UNCHANGED <<geoVars, swVars, events, now, navOnLine, isOnline, offlineSubmissions,
                 storage, listeners, runs, formData, isSubmitting, submitting, dirty>>

\* the 5 s timer of toast i fires: every toast with its id goes
ExpireToast(i) ==
  /\ toasts[i].id \in {IdOf(t) : t \in 0..(now - 1)}
  /\ toasts' = SelectSeq(toasts, LAMBDA t : t.id # toasts[i].id)
  /\ posted' = << >>
  /\ UNCHANGED <<geoVars, swVars, events, now, navOnLine, isOnline, offlineSubmissions,
                 storage, listeners, runs, formData, isSubmitting, submitting, dirty>>

TickToast ==
  /\ now < MaxClock
  /\ now' = now + 1
  /\ posted' = << >>
  /\ UNCHANGED <<sinkVars, geoVars, navOnLine, isOnline, offlineSubmissions,
                 storage, listeners, runs, formData, isSubmitting, submitting,
                 dirty>>

NextToast ==
  \/ TickToast
  \/ \E k \in ToastKinds : PostToast(k[1], k[2])
  \/ \E i \in DOMAIN toasts : ExpireToast(i)

SpecToast == Init /\ [][NextToast]_vars

\* the 5 s of the toast posted at clock value id are over at clock value t
Due(id, t) == id \in {IdOf(u) : u \in 0..(t - 1)}

ToastIds == {IdOf(t) : t \in 0..MaxClock}

\* a timer that is due fires (setTimeout callbacks are run by the event loop)
SpecToastLive ==
  SpecToast /\ \A i \in 1..MaxToasts : WF_vars(i \in DOMAIN toasts /\ ExpireToast(i))


\* what a page sends as event.data.submission
SentForms == {d \in TypedForms : validateForm(d)}

\* storeOfflineSubmission: store.add of a record keyed by Date.now().toString();
\* an add under a key the store already holds fails and stores nothing
storeOfflineSubmission(db, submission, t) ==
  IF \E i \in DOMAIN db : db[i].id = IdOf(t) THEN db
  ELSE Append(db, [id |-> IdOf(t), data |-> submission, timestamp |-> t,
                   status |-> "pending"])

\* the message listener, type OFFLINE_SUBMISSION
StoreMessage(submission) ==
  /\ swState \in {"installed", "activated"}
  /\ Len(idb) < MaxQueue
  /\ idb' = storeOfflineSubmission(idb, submission, now)
  /\ posted' = << >>
  /\ UNCHANGED <<toasts, events, swState, caches, answer, swLog, geoVars, now,
                 navOnLine, isOnline, offlineSubmissions, storage, listeners, runs,
                 formData, isSubmitting, submitting, dirty>>

\* syncOfflineData: store.getAll() returns an IDBRequest, which is no
\* promise, so the await yields the request itself; it is not iterable, the
\* for...of throws a TypeError before its first pass and the outer catch
\* logs it.  No record is read, attempted or changed.
syncOfflineData(db) ==
  [db |-> db, log |-> [attempted |-> << >>, error |-> "Error in syncOfflineData"]]

\* the sync listener (tag background-sync) and the message listener, type
\* SYNC_OFFLINE_DATA
SyncMessage ==
  LET out == syncOfflineData(idb)
  IN  /\ swState \in {"installed", "activated"}
      /\ idb' = out.db
      /\ swLog' = out.log
      /\ posted' = << >>
      /\ UNCHANGED <<toasts, events, swState, caches, answer, geoVars, now, navOnLine,
                     isOnline, offlineSubmissions, storage, listeners, runs,
                     formData, isSubmitting, submitting, dirty>>

\* the mounted form of form-layout.tsx, nothing stored yet
PageMounted ==
  /\ now = 0
  /\ navOnLine \in BOOLEAN
  /\ isOnline = navOnLine
  /\ storage = NoItem
  /\ offlineSubmissions = loadOfflineSubmissions(storage)
  /\ listeners = MountListeners
  /\ runs = << >>
  /\ toasts = << >>
  /\ events = << >>
  /\ posted = << >>
  /\ formData = EmptyForm
  /\ isSubmitting = FALSE
  /\ submitting = 0
  /\ dirty = FALSE
  /\ tracking = FALSE
  /\ watchId = 0
  /\ watches = {}
  /\ locationLoading = FALSE
  /\ location = NoFix
  /\ querying = FALSE

\* the worker script before its install event, with or without a cache an
\* older version left behind
InitSW ==
  /\ PageMounted
  /\ swState = "parsed"
  /\ caches \in {NoCaches, [NoCaches EXCEPT ![CACHE_NAME] = {Own("/api/items")}]}
  /\ answer = NoAnswer
  /\ idb = << >>
  /\ swLog = NoLog

\* the worker installed and activated, its store empty
InitStore ==
  /\ PageMounted
  /\ swState = "activated"
  /\ caches = [NoCaches EXCEPT ![STATIC_CACHE] = urlsToCache,
                               ![OFFLINE_CACHE] = {Own("/offline.html")}]
  /\ answer = NoAnswer
  /\ idb = << >>
  /\ swLog = NoLog

\* the worker's lifecycle and its fetch listener
NextSW ==
  \/ \E okStatic \in BOOLEAN, okOffline \in BOOLEAN : InstallEvent(okStatic, okOffline)
  \/ Register
  \/ ActivateEvent
  \/ \E request \in Requests, net \in NetOutcomes : FetchEvent(request, net)

SpecSW == InitSW /\ [][NextSW]_vars

\* the worker's IndexedDB store next to the form's queue; the clock Tick
\* advances is the one Date.now() reads in the page and in the worker
NextStore ==
  \/ \E submission \in SentForms : StoreMessage(submission)
  \/ SyncMessage
  \/ Tick
  \/ ConnectivityEvent
  \/ \E data \in TypedForms : SubmitOffline(data)
  \/ Reload

SpecStore == InitStore /\ [][NextStore]_vars

\* ================================================================ claims
\* the ids run has taken to syncing so far
Attempted(run) ==
  LET pend == PendingOf(run.snap)
  IN  {pend[k].id : k \in 1..(Len(pend) - Len(run.todo) + 1)}

IdsOf(subs) == {subs[i].id : i \in DOMAIN subs}

\* no two entries carry the same id (two enqueues in one millisecond do)
DistinctIds(subs) ==
  \A i \in DOMAIN subs : \A j \in DOMAIN subs : subs[i].id = subs[j].id => i = j

NoCollision ==
  /\ DistinctIds(offlineSubmissions)
  /\ \A r \in DOMAIN runs : DistinctIds(runs[r].snap)

StatusSteps ==
  {<<"pending", "syncing">>, <<"syncing", "synced">>, <<"syncing", "failed">>}

\* C1: when syncOfflineSubmissions is invoked while an earlier invocation is
\* awaiting its remote call, no submission is taken through the syncing
\* attempt by both invocations (ids being distinct).
C1_NoDoubleAttempt ==
  NoCollision =>
    \A j \in DOMAIN runs : \A i \in runs[j].olap :
       Attempted(runs[i]) \cap Attempted(runs[j]) = {}

\* C2: apart from a reload, and ids being distinct, every status change of
\* a submission id in the queue is pending -> syncing, syncing -> synced or
\* syncing -> failed.
C2_StatusOrder ==
  [][Reload \/ ~NoCollision \/ ~NoCollision' \/
     \A i \in DOMAIN offlineSubmissions : \A j \in DOMAIN offlineSubmissions' :
        offlineSubmissions[i].id = offlineSubmissions'[j].id =>
          \/ offlineSubmissions[i].status = offlineSubmissions'[j].status
          \/ <<offlineSubmissions[i].status, offlineSubmissions'[j].status>>
                \in StatusSteps]_vars

\* C3: apart from a reload, no step removes a pending or failed submission
\* from the queue.
C3_PendingKept ==
  [][Reload \/
     \A i \in DOMAIN offlineSubmissions :
        offlineSubmissions[i].status \in {"pending", "failed"} =>
          offlineSubmissions[i].id \in IdsOf(offlineSubmissions')]_vars

\* C4: when the removal timer of a run fires, every submission the run took
\* to synced is gone from the queue and from localStorage.
C4_SyncedRemoved ==
  [][\A r \in DOMAIN runs :
       GraceTimer(r) =>
         /\ Attempted(runs[r]) \cap IdsOf(offlineSubmissions') = {}
         /\ Attempted(runs[r]) \cap IdsOf(loadOfflineSubmissions(storage')) = {}]_vars

\* C5: when the loop of a run over k >= 2 pending submissions ends, with no
\* other run in flight and the queue as the run left it, all k submissions
\* are synced in the queue and in localStorage.
C5_AllSynced ==
  [][\A r \in DOMAIN runs :
       ( /\ SyncTimer(r)
         /\ runs'[r].pc = "grace"
         /\ Len(runs) = 1
         /\ Len(PendingOf(runs[r].snap)) >= 2
         /\ offlineSubmissions = SetStatus(runs[r].snap, Head(runs[r].todo).id, "syncing")
         /\ ~dirty' )
       => \A q \in {offlineSubmissions', loadOfflineSubmissions(storage')} :
            \A i \in DOMAIN q :
               q[i].id \in Attempted(runs'[r]) => q[i].status = "synced"]_vars

\* C6: an online event that finds a pending submission in the queue starts
\* one sync run.
C6_AutoSync ==
  [][(~navOnLine /\ navOnLine' /\ CountPending(offlineSubmissions) > 0)
       => /\ Len(runs') = Len(runs) + 1
          /\ runs'[Len(runs')].by = "online"]_vars

\* C7 as claimed: one listener pair is registered, and an online event starts
\* one sync run when the queue is not empty and none when it is empty.
C7_RunWheneverQueued ==
  [][(~navOnLine /\ navOnLine') =>
       /\ Len(listeners) = 1
       /\ Len(runs') = Len(runs) + (IF Len(offlineSubmissions) > 0 THEN 1 ELSE 0)]_vars

\* C7, amended: one listener pair is registered before and after every step,
\* and an online event starts one sync run, invoked by the listener, when
\* some submission is pending and none when no submission is pending.
C7_OneRunPerOnlineEvent ==
  [][/\ Len(listeners) = 1
     /\ Len(listeners') = 1
     /\ (~navOnLine /\ navOnLine') =>
          IF CountPending(offlineSubmissions) > 0
          THEN /\ Len(runs') = Len(runs) + 1
               /\ runs'[Len(runs')].by = "online"
               /\ runs'[Len(runs')].snap = offlineSubmissions
          ELSE /\ runs' = runs
               /\ offlineSubmissions' = offlineSubmissions]_vars

C7_Witness ==
  /\ isOnline
  /\ Len(listeners) = 1
  /\ listeners[1].subs = offlineSubmissions
  /\ \E r \in DOMAIN runs :
       /\ runs[r].by = "online"
       /\ Len(PendingOf(runs[r].snap)) = 2
       /\ runs[r].pc = "grace"

\* C9: a reload lists again every submission that was in the queue.
C9_SurvivesReload ==
  [][(GeoReload \/ Reload) =>
       \A i \in DOMAIN offlineSubmissions :
          \E j \in DOMAIN offlineSubmissions' :
             /\ offlineSubmissions'[j].id = offlineSubmissions[i].id
             /\ offlineSubmissions'[j].data = offlineSubmissions[i].data]_vars

\* C8: unless the last localStorage write threw, the sequence stored under
\* 'offlineSubmissions' is the in-memory queue.
C8_WriteThrough ==
  ~dirty => loadOfflineSubmissions(storage) = offlineSubmissions

C8_Witness ==
  /\ ~dirty
  /\ Len(offlineSubmissions) = 2
  /\ storage # NoItem
  /\ \E i \in DOMAIN offlineSubmissions : offlineSubmissions[i].status = "synced"
  /\ \E r \in DOMAIN runs : runs[r].pc = "grace"

\* C10: an offline enqueue whose localStorage write throws still appends the
\* pending submission to the in-memory queue, posts the offline toast,
\* resets the form and leaves isSubmitting false.
C10_EnqueueSurvivesWriteFailure ==
  [][\A data \in TypedForms : (SubmitOffline(data) /\ dirty') =>
       /\ offlineSubmissions' =
            Append(offlineSubmissions, NewSubmission(data, now))
       /\ offlineSubmissions'[Len(offlineSubmissions')].status = "pending"
       /\ Len(posted') = 1
       /\ posted'[1].type = "offline"
       /\ formData' = EmptyForm
       /\ ~isSubmitting']_vars

C10_Witness ==
  /\ dirty
  /\ storage = NoItem
  /\ Len(offlineSubmissions) = 1
  /\ offlineSubmissions[1].status = "pending"
  /\ Len(posted) = 1
  /\ posted[1].type = "offline"
  /\ formData = EmptyForm
  /\ ~isSubmitting

\* the kinds of the toasts a step posted, in order
KindsOf(ts) == [i \in DOMAIN ts |-> ts[i].type]

\* C11: a valid submit handled while isOnline is false appends exactly one
\* submission, pending and holding the submitted form data, posts exactly
\* one toast, of kind offline, resets the form and starts neither a remote
\* call nor a sync run.
C11_OfflineSubmit ==
  [][SubmitOffline(formData) =>
       /\ Len(offlineSubmissions') = Len(offlineSubmissions) + 1
       /\ offlineSubmissions'[Len(offlineSubmissions')].status = "pending"
       /\ offlineSubmissions'[Len(offlineSubmissions')].data = formData
       /\ KindsOf(posted') = <<"offline">>
       /\ formData' = EmptyForm
       /\ submitting' = submitting
       /\ runs' = runs]_vars

C11_Witness ==
  /\ ~isOnline
  /\ Len(offlineSubmissions) = 1
  /\ offlineSubmissions[1].status = "pending"
  /\ validateForm(offlineSubmissions[1].data)
  /\ KindsOf(posted) = <<"offline">>
  /\ formData = EmptyForm
  /\ submitting = 0

\* C12: with no sync run in between (SpecForm has none), every entry of the
\* queue is pending, and every valid offline submit leaves the entries
\* already listed as they are and in place and adds the submitted record,
\* pending, after them.
C12_EnqueueOrder ==
  /\ [](\A i \in DOMAIN offlineSubmissions :
          offlineSubmissions[i].status = "pending")
  /\ [][SubmitOffline(formData) =>
          offlineSubmissions' =
            offlineSubmissions \o
              << [id |-> ToString(now), data |-> formData, timestamp |-> now,
                  status |-> "pending"] >>]_vars

C12_Witness ==
  /\ Len(offlineSubmissions) = 2
  /\ offlineSubmissions[1].data # offlineSubmissions[2].data
  /\ offlineSubmissions[1].timestamp < offlineSubmissions[2].timestamp
  /\ \A i \in DOMAIN offlineSubmissions : offlineSubmissions[i].status = "pending"
  /\ runs = << >>

\* C13: no two submissions in the queue share an id.
C13_UniqueIds ==
  \A i \in DOMAIN offlineSubmissions : \A j \in DOMAIN offlineSubmissions :
     i # j => offlineSubmissions[i].id # offlineSubmissions[j].id

\* C14: syncOfflineSubmissions invoked (Sync Now) when no submission is
\* pending posts no toast, changes no status, writes nothing to storage and
\* starts no run, so no removal timer is set.
C14_NoPendingNoOp ==
  [][(SyncNow /\ CountPending(offlineSubmissions) = 0) =>
       /\ posted' = << >>
       /\ UNCHANGED <<offlineSubmissions, storage, runs, dirty>>]_vars

C14_Witness ==
  /\ isOnline
  /\ Len(offlineSubmissions) > 0
  /\ CountPending(offlineSubmissions) = 0
  /\ ENABLED SyncNow
  /\ posted = << >>
  /\ storage = <<JSONstringify(offlineSubmissions)>>

\* C15, the claim's reading of validateForm
Blank(s) == \A k \in DOMAIN s : s[k] \in {" ", "\t", "\n"}

\* local@domain.tld: one "@", a "." later with something between and after,
\* no whitespace anywhere
WellFormedEmail(s) ==
  \E i \in DOMAIN s : \E j \in DOMAIN s :
     /\ 1 < i /\ i + 1 < j /\ j < Len(s)
     /\ s[i] = "@" /\ s[j] = "."
     /\ \A k \in DOMAIN s \ {i} : s[k] \notin {"@", " ", "\t", "\n"}

\* C15: the error mapping of validateForm has firstName (lastName) iff that
\* field is blank after trimming, email with 'Email is required' iff the email
\* is blank and with 'Please enter a valid email' iff it is not blank and not
\* of the form local@domain.tld; no other key; valid iff the mapping is empty.
C15_ValidationMapping ==
  LET m == validateErrors(formData)
      keys == {e[1] : e \in m}
  IN  /\ "firstName" \in keys <=> Blank(formData.firstName)
      /\ "lastName" \in keys <=> Blank(formData.lastName)
      /\ <<"email", "Email is required">> \in m <=> Blank(formData.email)
      /\ <<"email", "Please enter a valid email">> \in m
            <=> (~Blank(formData.email) /\ ~WellFormedEmail(formData.email))
      /\ keys \subseteq {"firstName", "lastName", "email"}
      /\ Cardinality(m) = Cardinality(keys)
      /\ validateForm(formData) <=>
            (~Blank(formData.firstName) /\ ~Blank(formData.lastName)
               /\ WellFormedEmail(formData.email))

C15_Witness ==
  /\ KindsOf(posted) = <<"error">>
  /\ ~Blank(formData.firstName)
  /\ Blank(formData.lastName) /\ formData.lastName # EmptyText
  /\ Len(formData.email) = MaxEmailLen
  /\ formData.email[1] = " "
  /\ WellFormedEmail(Tail(formData.email))
  /\ validateErrors(formData) =
       {<<"lastName", "Last name is required">>,
        <<"email", "Please enter a valid email">>}

\* C16: a submit of a form that fails validation, online or offline, leaves
\* the queue, the localStorage item and the form fields unchanged, starts no
\* remote call and no sync run, and posts exactly one toast, of kind error.
C16_InvalidSubmit ==
  [][(~validateForm(formData)
        /\ (SubmitInvalid \/ SubmitOffline(formData) \/ SubmitOnline)) =>
       /\ UNCHANGED <<offlineSubmissions, storage, formData, submitting,
                      isSubmitting, runs>>
       /\ KindsOf(posted') = <<"error">>]_vars

C16_Witness ==
  /\ KindsOf(posted) = <<"error">>
  /\ posted[1].message = "Please fix the errors in the form"
  /\ ~validateForm(formData)
  /\ formData # EmptyForm
  /\ ~isOnline
  /\ Len(offlineSubmissions) = 1
  /\ storage = <<JSONstringify(offlineSubmissions)>>

\* C17: the online path of handleSubmit, before and after its remote call,
\* leaves the queue and the localStorage item unchanged; when the call fails
\* the only toast is an error toast and the form fields are kept.
C17_OnlineSubmitFrame ==
  [][(SubmitOnline \/ SubmitResolve) =>
       /\ UNCHANGED <<offlineSubmissions, storage, runs>>
       /\ (SubmitResolve /\ KindsOf(posted') # <<"success">>) =>
             /\ KindsOf(posted') = <<"error">>
             /\ formData' = formData
             /\ ~isSubmitting']_vars

C17_Witness ==
  /\ KindsOf(posted) = <<"error">>
  /\ posted[1].message = "Submission failed. Please try again."
  /\ validateForm(formData)
  /\ submitting = 0 /\ ~isSubmitting
  /\ Len(offlineSubmissions) = 1
  /\ offlineSubmissions[1].data # formData
  /\ storage = <<JSONstringify(offlineSubmissions)>>

OnScreen(id) == \E i \in DOMAIN toasts : toasts[i].id = id

C19_ToastLifetime ==
  /\ [][\A i \in DOMAIN toasts :
          ~Due(toasts[i].id, now) =>
             Len(SelectSeq(toasts', LAMBDA t : t = toasts[i]))
               >= Len(SelectSeq(toasts, LAMBDA t : t = toasts[i]))]_vars
  /\ [][\A k \in ToastKinds :
          PostToast(k[1], k[2]) =>
             /\ Len(toasts') = Len(toasts) + 1
             /\ SubSeq(toasts', 1, Len(toasts)) = toasts
             /\ toasts'[Len(toasts')].type = k[1]
             /\ toasts'[Len(toasts')].message = k[2]]_vars
  /\ [](\A i \in DOMAIN toasts :
          Due(toasts[i].id, now) => ENABLED ExpireToast(i))
  /\ \A id \in ToastIds :
          (OnScreen(id) /\ Due(id, now)) ~> ~OnScreen(id)

\* the toast of clock value 0 has expired at clock value 1 while a toast
\* posted at 1 stayed
C19_Witness ==
  /\ now = 1
  /\ posted = << >>
  /\ Len(toasts) = 1
  /\ toasts[1].id = IdOf(1)


\* C20: a sync run over n >= 1 pending submissions posts one info toast
\* when it starts and then one outcome toast per submission, n in all: the
\* start step posts exactly the info toast naming n and leaves n passes to
\* do; every resolved remote call posts exactly one success toast and
\* leaves that run one pass less, the other runs as they were; no other
\* step posts an info, success or error toast or changes what is left to
\* do (a reload abandons the runs); no submission is ever marked failed and
\* no error toast is posted by a run.
Left(run) == IF run.pc = "await" THEN Len(run.todo) ELSE 0

RECURSIVE Outstanding(_)
Outstanding(rs) ==
  IF rs = << >> THEN 0 ELSE Left(Head(rs)) + Outstanding(Tail(rs))

OutcomeKinds == {"info", "success", "error"}

C20_OutcomeToasts ==
  /\ [](/\ \A i \in DOMAIN offlineSubmissions :
              offlineSubmissions[i].status # "failed"
        /\ \A i \in DOMAIN posted : posted[i].type # "error")
  /\ [][(SyncNow /\ CountPending(offlineSubmissions) >= 1) =>
          /\ KindsOf(posted') = <<"info">>
          /\ posted'[1].message =
                "Syncing " \o ToString(CountPending(offlineSubmissions))
                   \o " offline submission(s)..."
          /\ Len(runs') = Len(runs) + 1
          /\ Left(runs'[Len(runs')]) = CountPending(offlineSubmissions)
          /\ \A q \in DOMAIN runs : runs'[q] = runs[q]]_vars
  /\ [][\A r \in DOMAIN runs :
          SyncTimer(r) =>
             /\ KindsOf(posted') = <<"success">>
             /\ Left(runs'[r]) = Left(runs[r]) - 1
             /\ \A q \in DOMAIN runs \ {r} : runs'[q] = runs[q]]_vars
  /\ [][(\/ \E i \in DOMAIN posted' : posted'[i].type \in OutcomeKinds
         \/ (Outstanding(runs') # Outstanding(runs) /\ ~Reload)) =>
          (SyncNow \/ \E r \in DOMAIN runs : SyncTimer(r))]_vars

\* a run over two pending submissions has just posted its second success
\* toast
C20_Witness ==
  \E r \in DOMAIN runs :
    /\ runs[r].pc = "grace"
    /\ runs[r].at = now
    /\ CountPending(runs[r].snap) = 2
    /\ DistinctIds(runs[r].snap)
    /\ KindsOf(posted) = <<"success">>


\* C21: a failing one-shot location query (permission denied, position
\* unavailable or timeout) leaves the form's location attributes, its text
\* fields and the queue as they were, posts exactly one error toast and
\* puts locationLoading back to false; starting the query does not touch
\* the form or the queue either.
C21_QueryFailureFrame ==
  /\ [][\A code \in ErrorCodes :
          GetLocationError(code) =>
             /\ UNCHANGED <<formData, location, offlineSubmissions>>
             /\ KindsOf(posted') = <<"error">>
             /\ posted'[1].message = "Failed to get location: " \o code
             /\ ~locationLoading']_vars
  /\ [][handleGetLocation =>
          /\ UNCHANGED <<formData, location, offlineSubmissions>>
          /\ locationLoading']_vars
  /\ [](querying => locationLoading)

\* a query has just failed on a form that holds typed text, a position and
\* a queued submission
C21_Witness ==
  /\ KindsOf(posted) = <<"error">>
  /\ posted[1].message = "Failed to get location: TIMEOUT"
  /\ ~locationLoading
  /\ location \in Fixes
  /\ formData.firstName # EmptyText
  /\ Len(offlineSubmissions) = 1


PendingIds(db) ==
  LET pend == SelectSeq(db, LAMBDA r : r.status = "pending")
  IN  [i \in DOMAIN pend |-> pend[i].id]

C23_AttemptsPending ==
  [][SyncMessage => swLog'.attempted = PendingIds(idb)]_vars


\* C24: delivery happens only while connectivity is present: in no step
\* taken while isOnline is false does a submission's status change to
\* syncing or to synced.
C24_OnlineOnlyDelivery ==
  [][(~isOnline /\ ~isOnline') =>
       \A i \in DOMAIN offlineSubmissions \cap DOMAIN offlineSubmissions' :
         (/\ offlineSubmissions'[i].id = offlineSubmissions[i].id
          /\ offlineSubmissions'[i].status \in {"syncing", "synced"})
            => offlineSubmissions'[i].status = offlineSubmissions[i].status]_vars


\* C25: every sync run terminates: a run started over n pending
\* submissions has n simulated remote calls to make; each resolved call
\* takes one off, and the last one leaves the run waiting for its one grace
\* timer, which removes the run; no other step gives any run more to do
\* (an enqueue leaves the runs as they are); and under fair timers no run
\* stays in one place for ever: the slot of every run in flight is
\* infinitely often empty, changing, or moved up by the removal of a run
\* before it.
C25_RunTerminates ==
  /\ [][(SyncNow /\ CountPending(offlineSubmissions) >= 1) =>
          /\ Len(runs') = Len(runs) + 1
          /\ runs'[Len(runs')].pc = "await"
          /\ Len(runs'[Len(runs')].todo) = CountPending(offlineSubmissions)]_vars
  /\ [][\A r \in DOMAIN runs :
          SyncTimer(r) =>
             /\ Len(runs') = Len(runs)
             /\ IF Len(runs[r].todo) = 1
                THEN runs'[r].pc = "grace"
                ELSE runs'[r].pc = "await" /\ runs'[r].todo = Tail(runs[r].todo)]_vars
  /\ [][\A r \in DOMAIN runs :
          GraceTimer(r) => runs[r].pc = "grace" /\ Len(runs') = Len(runs) - 1]_vars
  /\ [][Outstanding(runs') > Outstanding(runs) => SyncNow]_vars
  /\ [][(\E data \in TypedForms : SubmitOffline(data)) => UNCHANGED runs]_vars
  /\ \A r \in 1..MaxRuns :
        \/ []<>(Len(runs) < r)
        \/ []<><<\/ Len(runs) >= r /\ (Len(runs') < r \/ runs'[r] # runs[r])
                 \/ \E q \in 1..r : q \in DOMAIN runs /\ GraceTimer(q)>>_vars

\* a run over one submission has made its call and waits for its grace
\* timer; a second submission was enqueued after the run's snapshot
C25_Witness ==
  \E r \in DOMAIN runs :
    /\ runs[r].pc = "grace"
    /\ Len(runs[r].snap) = 1
    /\ Len(offlineSubmissions) = 2
    /\ offlineSubmissions[1].status = "synced"
    /\ offlineSubmissions[2].timestamp > runs[r].snap[1].timestamp


\* C26: the worker's store and the form's queue are one Submission Store:
\* when the worker's sync runs, every submission the form has saved offline
\* is among the records of the store it reads, and when the form loads its
\* queue, every record the worker has stored is in it.
Holds(db, sub) == \E j \in DOMAIN db : db[j].id = sub.id /\ db[j].data = sub.data

C26_OneStore ==
  /\ [][SyncMessage =>
          \A i \in DOMAIN offlineSubmissions : Holds(idb, offlineSubmissions[i])]_vars
  /\ [][Reload =>
          \A j \in DOMAIN idb : Holds(offlineSubmissions', idb[j])]_vars


\* C27: whenever no sync run is in flight (none awaits a remote call; a
\* run that only waits for its grace timer has ended), no submission in the
\* queue has status syncing.
C27_NoOrphanSyncing ==
  (\A r \in DOMAIN runs : runs[r].pc # "await") =>
     \A i \in DOMAIN offlineSubmissions : offlineSubmissions[i].status # "syncing"


\* C28: in the geolocation variant, whenever tracking is true the watch
\* that Start Tracking started is still registered with the browser.
C28_WatchWhileTracking ==
  tracking => (watchId # 0 /\ watchId \in watches)

\* C29: in the geolocation variant, whenever tracking is false no
\* geolocation watch is registered, and at most one watch is registered at
\* any time.
C29_NoWatchUnlessTracking ==
  /\ ~tracking => watches = {}
  /\ Cardinality(watches) <= 1

\* C30: isSubmitting is true exactly while an online submit's simulated
\* remote call is outstanding. A submit that fails validation leaves it
\* false, the offline path and the resolution of the remote call (success
\* or failure) end with it false, and only the online path sets it.
C30_SubmittingWhileOutstanding ==
  /\ [](isSubmitting <=> submitting > 0)
  /\ [](submitting <= 1)
  /\ [][SubmitInvalid => (~isSubmitting' /\ submitting' = 0)]_vars
  /\ [][SubmitOffline(formData) => (~isSubmitting' /\ submitting' = 0)]_vars
  /\ [][SubmitResolve => (~isSubmitting' /\ submitting' = 0)]_vars
  /\ [][(~isSubmitting /\ isSubmitting') =>
         (validateForm(formData) /\ isOnline /\ submitting' = 1)]_vars

\* an online submit is awaiting its remote call after an earlier submit
\* went the offline path
C30_Witness ==
  /\ isSubmitting
  /\ submitting = 1
  /\ Len(offlineSubmissions) = 1
  /\ Len(posted) = 1
  /\ posted[1].type = "info"

====
